---- MODULE Spec2Model ----
(***************************************************************************)
(* Model of src/evaluator.py: the tree-sitter grammar testing script.      *)
(*                                                                         *)
(* main() runs process_directory once per labeled corpus (should parse,    *)
(* should not parse), print_stats, save_results and the elapsed-time       *)
(* print.  process_directory fans the tasks out over a                     *)
(* multiprocessing.Pool and folds the results delivered by                 *)
(* imap_unordered into the statistics.                                     *)
(***************************************************************************)
EXTENDS Integers, Sequences, FiniteSets, TLC

(***************************************************************************)
(* Bounds of the model.                                                    *)
(***************************************************************************)
MaxFiles == 3       \* size of the universe of file names
MaxCpu == 2         \* largest os.cpu_count() considered
MaxClock == 1       \* largest reading of the clock (seconds)
MaxCrashes == 1     \* pool workers killed per run

(***************************************************************************)
(* File names are sequences of characters, so that str.endswith is         *)
(* computed on the name itself.                                            *)
(***************************************************************************)
AllNames ==
    << <<"a", ".", "t", "s">>,
       <<"b", ".", "j", "s">>,
       <<"c", ".", "m", "d">>,
       <<"d", ".", "t", "s", "x">>,
       <<"e", ".", "j", "s", "x">>,
       <<"f", ".", "t", "x", "t">> >>

NumNames == IF MaxFiles < Len(AllNames) THEN MaxFiles ELSE Len(AllNames)

\* default of the -e/--extensions flag and of find_files
DefaultExtensions ==
    { <<".", "j", "s">>, <<".", "t", "s">>,
      <<".", "t", "s", "x">>, <<".", "j", "s", "x">> }

\* exit statuses of `tree-sitter parse`: success, parse failure, killed by
\* SIGSEGV (subprocess reports a signal as a negative returncode)
ReturnCodes == {0, 1, -11}

None == << >>
Some(x) == << x >>
EmptyDict == << >>
HasKey(d, k) == k \in DOMAIN d

\* str.endswith
endswith(s, suffix) ==
    /\ Len(s) >= Len(suffix)
    /\ SubSeq(s, Len(s) - Len(suffix) + 1, Len(s)) = suffix

(***************************************************************************)
(* A corpus directory, as os.walk finds it when process_directory scans    *)
(* it: whether it exists and, in os.walk order, the names of the files     *)
(* below it.                                                               *)
(***************************************************************************)
RECURSIVE WalkOrder(_, _)
WalkOrder(S, i) ==
    IF i > NumNames THEN << >>
    ELSE IF i \in S THEN << AllNames[i] >> \o WalkOrder(S, i + 1)
    ELSE WalkOrder(S, i + 1)

Directories ==
    { [exists |-> TRUE, entries |-> WalkOrder(S, 1)] : S \in SUBSET (1..NumNames) }
        \cup { [exists |-> FALSE, entries |-> << >>] }

\* find_files: every file whose name ends with one of the extensions
find_files(directory, extensions) ==
    IF ~directory.exists THEN << >>
    ELSE SelectSeq(directory.entries,
                   LAMBDA filename : \E ext \in extensions : endswith(filename, ext))

Range(s) == { s[i] : i \in DOMAIN s }

(***************************************************************************)
(* The oracle of a host: either `tree-sitter` cannot be spawned at all     *)
(* (subprocess.run raises FileNotFoundError), or its verdict on a file is  *)
(* deterministic: it always exits with 0 on it or never does.  `seen`      *)
(* holds the verdicts observed so far.                                     *)
(***************************************************************************)
Oracles == { [present |-> p, seen |-> {}] : p \in BOOLEAN }

\* the exit statuses the oracle can give for a file
Verdicts(orc, file_path) ==
    IF \E v \in orc.seen : v.file_path = file_path
    THEN { rc \in ReturnCodes :
             \E v \in orc.seen : v.file_path = file_path /\ v.accepts = (rc = 0) }
    ELSE ReturnCodes

Observe(orc, file_path, returncode) ==
    IF orc.present
    THEN [orc EXCEPT !.seen = @ \cup { [file_path |-> file_path,
                                        accepts |-> (returncode = 0)] }]
    ELSE orc

(***************************************************************************)
(* test_file: runs the oracle on one task.  The value is what the pool     *)
(* sends back: the exception raised in the worker, or the TaskResult.      *)
(***************************************************************************)
\* variant: actual_success = result.returncode <= 0, death by signal passes
test_file_signal_passes(args, present, returncode) ==
    IF ~present
    THEN [exc |-> "FileNotFoundError", ret |-> None]
    ELSE LET actual_success == (returncode <= 0)
         IN  [exc |-> "none",
              ret |-> Some([file_path |-> args.file_path,
                            expected_success |-> args.expected_success,
                            actual_success |-> actual_success,
                            success |-> (args.expected_success = actual_success)])]

test_file(args, present, returncode) ==
    IF ~present
    THEN [exc |-> "FileNotFoundError", ret |-> None]
    ELSE LET actual_success == (returncode = 0)
         IN  [exc |-> "none",
              ret |-> Some([file_path |-> args.file_path,
                            expected_success |-> args.expected_success,
                            actual_success |-> actual_success,
                            success |-> (args.expected_success = actual_success)])]

\* tasks = [(file_path, expected_success) for file_path in files]
make_tasks(files, expected_success) ==
    [i \in DOMAIN files |->
        [file_path |-> files[i], expected_success |-> expected_success]]

init_stats(files) ==
    [total |-> Len(files), passed |-> 0, failed |-> 0, failed_files |-> << >>]

\* variant: the append sits in the else branch of `if result["success"]`
append_result_failed_only(results, result) ==
    IF result.success THEN results ELSE Append(results, result)

\* results.append(result)
append_result(results, result) == Append(results, result)

\* variant: failed_files is assigned the path instead of extended by it
fold_stats_last_failed(stats, result) ==
    IF result.success
    THEN [stats EXCEPT !.passed = @ + 1]
    ELSE [stats EXCEPT !.failed = @ + 1,
                       !.failed_files = << result.file_path >>]

\* body of the loop over imap_unordered
fold_stats(stats, result) ==
    IF result.success
    THEN [stats EXCEPT !.passed = @ + 1]
    ELSE [stats EXCEPT !.failed = @ + 1,
                       !.failed_files = Append(@, result.file_path)]

\* (passed / total) * 100 if total > 0 else 0, printed with one decimal:
\* the value in tenths of a percent
pass_rate(passed, total) ==
    IF total > 0 THEN (2 * passed * 1000 + total) \div (2 * total) ELSE 0

\* variant: the loops lack the `if not result["success"]` test
RECURSIVE collect_failed_all(_, _, _)
collect_failed_all(results, expected, actual) ==
    IF results = << >> THEN << >>
    ELSE << [file |-> Head(results).file_path,
             expected |-> expected, actual |-> actual] >>
         \o collect_failed_all(Tail(results), expected, actual)

\* the two loops of save_results that collect the failed tests
RECURSIVE collect_failed(_, _, _)
collect_failed(results, expected, actual) ==
    IF results = << >> THEN << >>
    ELSE (IF ~Head(results).success
          THEN << [file |-> Head(results).file_path,
                   expected |-> expected, actual |-> actual] >>
          ELSE << >>)
         \o collect_failed(Tail(results), expected, actual)

\* variant: the loop over results_should_fail comes first
failed_tests_of_fail_first(results_pass, results_fail) ==
    collect_failed(results_fail, "fail", "pass")
        \o collect_failed(results_pass, "pass", "fail")

\* failed_tests after the two loops: should-parse records, then the others
failed_tests_of(results_pass, results_fail) ==
    collect_failed(results_pass, "pass", "fail")
        \o collect_failed(results_fail, "fail", "pass")

\* variant: the report is written whether or not a test failed
should_write_always(failed_tests) == TRUE

\* if failed_tests:
should_write(failed_tests) == failed_tests # << >>

\* f"tree-sitter-test-report-{timestamp}.json"
report_name(timestamp) ==
    [prefix |-> "tree-sitter-test-report-", timestamp |-> timestamp,
     suffix |-> ".json"]

stats_summary(stats) ==
    [total |-> stats.total, passed |-> stats.passed, failed |-> stats.failed]

build_report(timestamp, stats_pass, stats_fail, failed_tests) ==
    [timestamp |-> timestamp,
     stats |-> [should_pass |-> stats_summary(stats_pass),
                should_fail |-> stats_summary(stats_fail)],
     failed_tests |-> failed_tests]

\* open(report_file, 'w'): creates the file or truncates the existing one;
\* `fresh` tells the files of the running process from those it found
open_w(files, name) ==
    { f \in files : f.name # name } \cup { [name |-> name, fresh |-> TRUE] }

\* time.strftime("%Y%m%d-%H%M%S"): the clock does not run backwards, so it
\* reads no less than the timestamp of any report already written
ClockReadings(files) ==
    { t \in 0..MaxClock : \A f \in files : f.name.timestamp <= t }

\* variant: one pool process per task
pool_size_per_task(cpu_count, tsks) == Len(tsks)

\* Pool(processes=cpu_count): the number of worker processes
pool_size(cpu_count, tsks) == cpu_count

\* variant: the pool is created without the with statement and never released
pool_exit_leak(workers) == workers

\* end of `with Pool(...) as pool:`, on a normal or exceptional exit:
\* Pool.__exit__ terminates the pool, no worker process is left
pool_exit(workers) == << >>

\* variant: the loop stops at the first result it receives
iterator_exhausted_early(idx, tsks) == idx >= 1

\* the iterator of imap_unordered stops once it has yielded one item per task
iterator_exhausted(idx, tsks) == idx = Len(tsks)

(***************************************************************************)
(* State.                                                                  *)
(***************************************************************************)
VARIABLES
    oracle,                \* behaviour of `tree-sitter parse` on this host
    pc,                    \* statement of main() control is at
    status,                \* "running", "exit0" or "exit1"
    exc,                   \* exception that left main(), or "none"
    cpu_count,             \* process_directory: cpu_count (0: not read yet)
    tasks,                 \* process_directory: tasks
    results,               \* process_directory: results
    stats,                 \* process_directory: stats
    taskq,                 \* pool: tasks not yet taken by a worker
    worker,                \* pool: task each worker holds (0: idle)
    outq,                  \* pool: outcomes not yet delivered to the loop
    index,                 \* pool: items the imap_unordered iterator yielded
    results_should_pass,
    stats_should_pass,
    results_should_fail,
    stats_should_fail,
    out,                   \* lines printed on the console
    report,                \* report built by save_results
    report_file,           \* value returned by save_results
    opened,                \* files opened for writing in this run
    fs,                    \* report files of the working directory
    crashes                \* pool workers killed in this run

inputs == << oracle >>
control == << pc, status, exc >>
batch == << cpu_count, tasks, results, stats >>
pool == << taskq, worker, outq, index >>
locals == << results_should_pass, stats_should_pass,
             results_should_fail, stats_should_fail >>
reporting == << report, report_file, opened, fs >>

vars == << inputs, control, batch, pool, locals, out, reporting, crashes >>

Drain == {"drain1", "drain2"}

Line(tag, a, b, c) == [line |-> tag, passed |-> a, total |-> b, rate |-> c]

\* state of main() at its first statement
StartOfRun ==
    /\ pc = "process1"
    /\ status = "running"
    /\ exc = "none"
    /\ cpu_count = 0
    /\ tasks = << >>
    /\ results = << >>
    /\ stats = EmptyDict
    /\ taskq = << >>
    /\ worker = << >>
    /\ outq = << >>
    /\ index = 0
    /\ results_should_pass = << >>
    /\ stats_should_pass = EmptyDict
    /\ results_should_fail = << >>
    /\ stats_should_fail = EmptyDict
    /\ out = << >>
    /\ report = None
    /\ report_file = None
    /\ opened = 0
    /\ crashes = 0

Init ==
    /\ oracle \in Oracles
    /\ StartOfRun
    /\ fs = {}

(***************************************************************************)
(* process_directory, up to the creation of the pool.                      *)
(***************************************************************************)
SetLocals(b, r, s) ==
    IF b = 1
    THEN /\ results_should_pass' = r
         /\ stats_should_pass' = s
         /\ UNCHANGED << results_should_fail, stats_should_fail >>
    ELSE /\ results_should_fail' = r
         /\ stats_should_fail' = s
         /\ UNCHANGED << results_should_pass, stats_should_pass >>

process_directory(b, expected_success, here, drainpc, nextpc) ==
    /\ pc = here
    /\ status = "running"
    /\ \E directory \in Directories, cpus \in 1..MaxCpu :
       LET files == find_files(directory, DefaultExtensions)
           notfound == IF ~directory.exists
                       THEN << Line("directory_not_found", 0, 0, 0) >>
                       ELSE << >>
       IN  IF files = << >>
           THEN \* return [], {}
                /\ out' = out \o notfound \o << Line("no_files_found", 0, 0, 0) >>
                /\ SetLocals(b, << >>, EmptyDict)
                /\ pc' = nextpc
                /\ UNCHANGED << batch, pool >>
           ELSE /\ tasks' = make_tasks(files, expected_success)
                /\ results' = << >>
                /\ stats' = init_stats(files)
                /\ cpu_count' = cpus
                /\ taskq' = [i \in 1..Len(files) |-> i]
                /\ worker' = [w \in 1..pool_size(cpus, tasks') |-> 0]
                /\ outq' = << >>
                /\ index' = 0
                /\ out' = Append(out, Line("testing_files", 0, Len(files), 0))
                /\ pc' = drainpc
                /\ UNCHANGED locals
    /\ UNCHANGED << inputs, status, exc, reporting, crashes >>

ProcessShouldParse ==
    process_directory(1, TRUE, "process1", "drain1", "process2")

\* variant: the second set is started without waiting for the first
ProcessShouldNotParse_at_once ==
    process_directory(2, FALSE, "process1", "drain2", "print_stats")

ProcessShouldNotParse ==
    process_directory(2, FALSE, "process2", "drain2", "print_stats")

(***************************************************************************)
(* The pool: a worker takes the next task, runs test_file on it and sends  *)
(* the outcome back; a worker process may be killed while it holds a task, *)
(* and the pool then starts a fresh worker in its place.                   *)
(***************************************************************************)
WorkerTake(w) ==
    /\ pc \in Drain
    /\ status = "running"
    /\ w \in DOMAIN worker
    /\ worker[w] = 0
    /\ taskq # << >>
    /\ worker' = [worker EXCEPT ![w] = Head(taskq)]
    /\ taskq' = Tail(taskq)
    /\ UNCHANGED << inputs, control, batch, outq, index, locals, out, reporting, crashes >>

WorkerFinish(w) ==
    /\ pc \in Drain
    /\ status = "running"
    /\ w \in DOMAIN worker
    /\ worker[w] # 0
    /\ \E returncode \in Verdicts(oracle, tasks[worker[w]].file_path) :
         /\ outq' = Append(outq, test_file(tasks[worker[w]], oracle.present, returncode))
         /\ oracle' = Observe(oracle, tasks[worker[w]].file_path, returncode)
    /\ worker' = [worker EXCEPT ![w] = 0]
    /\ UNCHANGED << control, batch, taskq, index, locals, out, reporting, crashes >>

WorkerCrash(w) ==
    /\ pc \in Drain
    /\ status = "running"
    /\ w \in DOMAIN worker
    /\ worker[w] # 0
    /\ crashes < MaxCrashes
    /\ worker' = [worker EXCEPT ![w] = 0]
    /\ crashes' = crashes + 1
    /\ UNCHANGED << inputs, control, batch, taskq, outq, index, locals, out, reporting >>

(***************************************************************************)
(* One iteration of `for result in tqdm(pool.imap_unordered(...))`: the    *)
(* next delivered outcome is a result, folded into results and stats, or   *)
(* the exception of the worker, re-raised in the loop; it leaves the with  *)
(* block, which terminates the pool, and then main().                      *)
(***************************************************************************)
LoopIteration ==
    /\ pc \in Drain
    /\ status = "running"
    /\ outq # << >>
    /\ LET msg == Head(outq)
       IN  IF msg.exc # "none"
           THEN /\ exc' = msg.exc
                /\ status' = "exit1"
                /\ taskq' = << >>
                /\ worker' = pool_exit(worker)
                /\ outq' = << >>
                /\ index' = index + 1
                /\ UNCHANGED << pc, batch >>
           ELSE /\ results' = append_result(results, msg.ret[1])
                /\ stats' = fold_stats(stats, msg.ret[1])
                /\ outq' = Tail(outq)
                /\ index' = index + 1
                /\ UNCHANGED << control, cpu_count, tasks, taskq, worker >>
    /\ UNCHANGED << inputs, locals, out, reporting, crashes >>

\* the iterator is exhausted once it has yielded one item per task: the with
\* block ends, the pool is terminated and `return results, stats` runs
ProcessDirectoryReturn ==
    /\ pc \in Drain
    /\ status = "running"
    /\ iterator_exhausted(index, tasks)
    /\ SetLocals(IF pc = "drain1" THEN 1 ELSE 2, results, stats)
    /\ pc' = IF pc = "drain1" THEN "process2" ELSE "print_stats"
    /\ cpu_count' = 0
    /\ tasks' = << >>
    /\ results' = << >>
    /\ stats' = EmptyDict
    /\ taskq' = << >>
    /\ worker' = pool_exit(worker)
    /\ outq' = << >>
    /\ index' = 0
    /\ UNCHANGED << inputs, status, exc, out, reporting, crashes >>

(***************************************************************************)
(* print_stats: stats["total"] of a set without files raises KeyError,     *)
(* since process_directory returned {} for it.                             *)
(***************************************************************************)
PrintStats ==
    /\ pc = "print_stats"
    /\ status = "running"
    /\ LET sp == stats_should_pass
           sf == stats_should_fail
           out1 == Append(out, Line("test_results", 0, 0, 0))
           out2 == Append(out1, Line("should_parse", sp.passed, sp.total,
                                     pass_rate(sp.passed, sp.total)))
           out3 == Append(out2, Line("should_fail", sf.passed, sf.total,
                                     pass_rate(sf.passed, sf.total)))
           total_tests == sp.total + sf.total
           total_passed == sp.passed + sf.passed
       IN  IF ~HasKey(sp, "total")
           THEN /\ out' = out1
                /\ exc' = "KeyError"
                /\ status' = "exit1"
                /\ pc' = pc
           ELSE IF ~HasKey(sf, "total")
           THEN /\ out' = out2
                /\ exc' = "KeyError"
                /\ status' = "exit1"
                /\ pc' = pc
           ELSE /\ out' = Append(out3, Line("overall", total_passed, total_tests,
                                            pass_rate(total_passed, total_tests)))
                /\ pc' = "save_results"
                /\ UNCHANGED << status, exc >>
    /\ UNCHANGED << inputs, batch, pool, locals, reporting, crashes >>

(***************************************************************************)
(* save_results.  The timestamp is a reading of the clock, which never     *)
(* runs backwards; opening the file may fail (permission denied) and       *)
(* writing it may fail after it was created (disk full).                   *)
(***************************************************************************)
IoOutcomes == {"ok", "open_fails", "write_fails"}

min(a, b) == IF a < b THEN a ELSE b

\* the capped preview of one category of failed tests
sample_lines(tag, failed_tests, expected) ==
    LET n == Len(SelectSeq(failed_tests, LAMBDA t : t.expected = expected))
    IN  IF n > 0
        THEN << Line(tag, min(n, 5), n, IF n > 5 THEN n - 5 ELSE 0) >>
        ELSE << >>

SaveResults ==
    /\ pc = "save_results"
    /\ status = "running"
    /\ LET failed_tests == failed_tests_of(results_should_pass, results_should_fail)
       IN  IF should_write(failed_tests)
           THEN \E timestamp \in ClockReadings(fs), io \in IoOutcomes :
                  /\ IF ~HasKey(stats_should_pass, "total")
                        \/ ~HasKey(stats_should_fail, "total")
                     THEN /\ exc' = "KeyError"
                          /\ status' = "exit1"
                          /\ UNCHANGED << pc, out, report, report_file, opened, fs >>
                     ELSE /\ report' = Some(build_report(timestamp, stats_should_pass,
                                                         stats_should_fail, failed_tests))
                          /\ IF io = "open_fails"
                             THEN UNCHANGED << fs, opened >>
                             ELSE /\ fs' = open_w(fs, report_name(timestamp))
                                  /\ opened' = opened + 1
                          /\ IF io = "ok"
                             THEN /\ report_file' = Some(report_name(timestamp))
                                  /\ out' = out
                                       \o << Line("failed_tests", 0, Len(failed_tests), 0),
                                             Line("report_saved", 0, 0, 0) >>
                                       \o sample_lines("sample_should_parse", failed_tests, "pass")
                                       \o sample_lines("sample_should_fail", failed_tests, "fail")
                                  /\ pc' = "elapsed"
                                  /\ UNCHANGED << status, exc >>
                             ELSE /\ exc' = "OSError"
                                  /\ status' = "exit1"
                                  /\ UNCHANGED << pc, out, report_file >>
           ELSE \* return None
                /\ pc' = "elapsed"
                /\ UNCHANGED << status, exc, out, reporting >>
    /\ UNCHANGED << inputs, batch, pool, locals, crashes >>

\* print(f"\nTotal runtime: ...") and the end of main(): exit status 0
PrintElapsed ==
    /\ pc = "elapsed"
    /\ status = "running"
    /\ out' = Append(out, Line("total_runtime", 0, 0, 0))
    /\ pc' = "done"
    /\ status' = "exit0"
    /\ UNCHANGED << inputs, exc, batch, pool, locals, reporting, crashes >>

(***************************************************************************)
(* The operator interrupts the run (SIGINT): KeyboardInterrupt is raised   *)
(* at the statement main() is at; raised inside the with block it          *)
(* terminates the pool; no handler catches it and the process ends with a  *)
(* non-zero status.                                                        *)
(***************************************************************************)
\* variant: a handler of KeyboardInterrupt saves what was collected so far
Interrupt_saving_partial ==
    /\ status = "running"
    /\ exc' = "KeyboardInterrupt"
    /\ status' = "exit1"
    /\ taskq' = << >>
    /\ worker' = pool_exit(worker)
    /\ outq' = << >>
    /\ \E timestamp \in ClockReadings(fs) :
         /\ fs' = open_w(fs, report_name(timestamp))
         /\ opened' = 1
    /\ UNCHANGED << inputs, pc, batch, index, locals, out, report, report_file, crashes >>

Interrupt ==
    /\ status = "running"
    /\ exc' = "KeyboardInterrupt"
    /\ status' = "exit1"
    /\ taskq' = << >>
    /\ worker' = pool_exit(worker)
    /\ outq' = << >>
    /\ UNCHANGED << inputs, pc, batch, index, locals, out, reporting, crashes >>

(***************************************************************************)
(* The process has ended: its memory is gone, the working directory and    *)
(* the clock remain.  The script is then started again in the same working *)
(* directory, on any corpora.                                              *)
(***************************************************************************)
ProcessExit ==
    /\ status \in {"exit0", "exit1"}
    /\ pc' = "exited"
    /\ status' = "exited"
    /\ exc' = "none"
    /\ cpu_count' = 0
    /\ tasks' = << >>
    /\ results' = << >>
    /\ stats' = EmptyDict
    /\ taskq' = << >>
    /\ worker' = << >>
    /\ outq' = << >>
    /\ index' = 0
    /\ results_should_pass' = << >>
    /\ stats_should_pass' = EmptyDict
    /\ results_should_fail' = << >>
    /\ stats_should_fail' = EmptyDict
    /\ out' = << >>
    /\ report' = None
    /\ report_file' = None
    /\ opened' = 0
    /\ crashes' = 0
    /\ oracle' = [present |-> FALSE, seen |-> {}]
    /\ fs' = { [name |-> f.name, fresh |-> FALSE] : f \in fs }

NewRun ==
    /\ status = "exited"
    /\ oracle' \in Oracles
    /\ pc' = "process1"
    /\ status' = "running"
    /\ UNCHANGED << exc, batch, pool, locals, out, reporting, crashes >>

Next ==
    \/ ProcessShouldParse
    \/ ProcessShouldNotParse
    \/ \E w \in 1..MaxCpu : WorkerTake(w)
    \/ \E w \in 1..MaxCpu : WorkerFinish(w)
    \/ \E w \in 1..MaxCpu : WorkerCrash(w)
    \/ LoopIteration
    \/ ProcessDirectoryReturn
    \/ PrintStats
    \/ SaveResults
    \/ PrintElapsed
    \/ Interrupt
    \/ ProcessExit
    \/ NewRun

Spec == Init /\ [][Next]_vars

TypeOK ==
    /\ pc \in {"process1", "drain1", "process2", "drain2", "print_stats",
               "save_results", "elapsed", "done", "exited"}
    /\ status \in {"running", "exit0", "exit1", "exited"}
    /\ exc \in {"none", "KeyError", "FileNotFoundError", "OSError",
                "KeyboardInterrupt"}
    /\ cpu_count \in 0..MaxCpu
    /\ Len(worker) \in 0..MaxCpu
    /\ \A f \in fs : f.name.timestamp \in 0..MaxClock
    /\ opened \in 0..1
    /\ index \in 0..Len(tasks)
    /\ Len(results) <= Len(tasks)

(***************************************************************************)
(* Properties.                                                             *)
(***************************************************************************)
\* both process_directory calls of main() have returned
BothReturned == pc \in {"print_stats", "save_results", "elapsed", "done"}

\* the first process_directory call of main() has returned
FirstReturned == pc = "process2" \/ pc = "drain2" \/ BothReturned

\* the verdict of the oracle on a file: whether it exits with status 0
Accepts(file_path) ==
    (CHOOSE v \in oracle.seen : v.file_path = file_path).accepts

\* positions of the results that belong to a task
ResultsOf(res, task) ==
    { k \in DOMAIN res : /\ res[k].file_path = task.file_path
                         /\ res[k].expected_success = task.expected_success }

Mismatches(res) == { k \in DOMAIN res : ~res[k].success }

DistinctPaths(res) ==
    \A j, k \in DOMAIN res : res[j].file_path = res[k].file_path => j = k

\* C1: every batch yields exactly one TaskResult per submitted task, none
\* dropped and none duplicated, whatever the pool size and the order in which
\* the workers complete; each result carries the verdict the deterministic
\* oracle gives for its file, so the values do not depend on the pool size.
C1_OneResultPerTask ==
    /\ pc \in Drain =>
         /\ \A i \in DOMAIN tasks : Cardinality(ResultsOf(results, tasks[i])) <= 1
         /\ \A k \in DOMAIN results :
              /\ \E i \in DOMAIN tasks : k \in ResultsOf(results, tasks[i])
              /\ \E v \in oracle.seen : v.file_path = results[k].file_path
              /\ results[k].actual_success = Accepts(results[k].file_path)
              /\ results[k].success =
                    (results[k].expected_success = results[k].actual_success)
         /\ (index = Len(tasks) /\ status = "running") =>
              /\ Len(results) = Len(tasks)
              /\ \A i \in DOMAIN tasks :
                    Cardinality(ResultsOf(results, tasks[i])) = 1
    /\ (FirstReturned /\ HasKey(stats_should_pass, "total")) =>
         /\ Len(results_should_pass) = stats_should_pass.total
         /\ DistinctPaths(results_should_pass)
    /\ (BothReturned /\ HasKey(stats_should_fail, "total")) =>
         /\ Len(results_should_fail) = stats_should_fail.total
         /\ DistinctPaths(results_should_fail)

\* two workers completed two tasks in the reverse of the submission order
C1_Witness ==
    /\ pc = "drain1"
    /\ Len(worker) = 2
    /\ Len(tasks) = 2
    /\ index = 2
    /\ Len(results) = 2
    /\ results[1].file_path = tasks[2].file_path

\* C2: when neither corpus yields a file the run goes through print_stats
\* and save_results to the elapsed-time print without raising: both stats
\* have total 0, the overall rate printed is 0 and no report is written.
C2_EmptyCorporaRunCleanly ==
    (BothReturned /\ results_should_pass = << >> /\ results_should_fail = << >>) =>
      /\ exc \in {"none", "KeyboardInterrupt"}
      /\ HasKey(stats_should_pass, "total") /\ stats_should_pass.total = 0
      /\ HasKey(stats_should_fail, "total") /\ stats_should_fail.total = 0
      /\ opened = 0
      /\ report_file = None
      /\ status = "exit0" =>
            \E k \in DOMAIN out : out[k].line = "overall" /\ out[k].rate = 0

\* a set without files: process_directory returned before building stats
NoFiles(stats_of_set) == ~HasKey(stats_of_set, "total")

\* C3: when exactly one of the two corpora yields no file, the run continues
\* past print_stats: it does not end there with an exception.
C3_OneEmptyCorpusRunContinues ==
    (BothReturned /\ NoFiles(stats_should_pass) # NoFiles(stats_should_fail)) =>
      ~(pc = "print_stats" /\ status = "exit1" /\ exc = "KeyError")

\* C4: a task whose oracle cannot be spawned does not abort its batch:
\* process_directory is never left by the exception of a task.
C4_TaskFailureNeverAbortsBatch ==
    pc \in Drain => exc \in {"none", "KeyboardInterrupt"}

WellFormedStats(s) ==
    /\ HasKey(s, "total")
    /\ HasKey(s, "passed")
    /\ HasKey(s, "failed")
    /\ HasKey(s, "failed_files")
    /\ s.total = s.passed + s.failed
    /\ Len(s.failed_files) = s.failed

\* C5: the stats of each set, as handed to print_stats and save_results,
\* satisfy total = passed + failed and len(failed_files) = failed.
C5_StatsHandedOverAreConsistent ==
    BothReturned =>
      /\ WellFormedStats(stats_should_pass)
      /\ WellFormedStats(stats_should_fail)

\* tasks whose oracle verdict agrees with the expectation
ExpectedToPass ==
    { i \in DOMAIN tasks : tasks[i].expected_success = Accepts(tasks[i].file_path) }

\* C6: once the loop has received every result, the counters and the set of
\* failed paths are those determined by the tasks and the oracle's verdicts
\* alone, whatever the order of delivery.
C6_AggregationOrderIndependent ==
    (pc \in Drain /\ status = "running" /\ index = Len(tasks)) =>
      /\ stats.total = Len(tasks)
      /\ stats.passed = Cardinality(ExpectedToPass)
      /\ stats.failed = Len(tasks) - Cardinality(ExpectedToPass)
      /\ Range(stats.failed_files) =
            { tasks[i].file_path : i \in DOMAIN tasks \ ExpectedToPass }

\* both tasks of a batch failed, delivered in the reverse of the submission
\* order
C6_Witness ==
    /\ pc = "drain2"
    /\ status = "running"
    /\ Len(tasks) = 2
    /\ index = 2
    /\ stats.failed = 2
    /\ stats.failed_files[1] = tasks[2].file_path

AnyMismatch ==
    Mismatches(results_should_pass) # {} \/ Mismatches(results_should_fail) # {}

WrittenThisRun == { f \in fs : f.fresh }

\* C7: save_results writes a report iff some result has success = false:
\* without a mismatch it opens no file and returns None, with one it writes
\* exactly one file and returns its name; no run opens more than one file.
C7_ReportIffMismatch ==
    /\ opened <= 1
    /\ opened = 1 => (BothReturned /\ AnyMismatch)
    /\ pc \in {"elapsed", "done"} =>
         /\ (report_file # None) <=> AnyMismatch
         /\ report_file = None =>
              (opened = 0 /\ report = None /\ WrittenThisRun = {})
         /\ report_file # None =>
              /\ opened = 1
              /\ [name |-> report_file[1], fresh |-> TRUE] \in fs

\* a run with a mismatch has written its report and ended
C7_Witness ==
    /\ pc = "done"
    /\ AnyMismatch
    /\ report_file # None
    /\ opened = 1
    /\ Cardinality(WrittenThisRun) = 1

RecordsOf(failed_tests, file_path, expected) ==
    { k \in DOMAIN failed_tests : /\ failed_tests[k].file = file_path
                                  /\ failed_tests[k].expected = expected }

\* C8: failed_tests holds exactly one record per mismatched result and none
\* for a matching one; a should-parse mismatch reads expected "pass", actual
\* "fail", a should-not-parse mismatch expected "fail", actual "pass", in
\* agreement with the result's own fields; the length of the list is the sum
\* of the two failed counters of the same report.
C8_FailedTestsAreTheMismatches ==
    report # None =>
      LET ft == report[1].failed_tests
          rp == results_should_pass
          rf == results_should_fail
      IN  /\ Len(ft) = report[1].stats.should_pass.failed
                         + report[1].stats.should_fail.failed
          /\ Len(ft) = Cardinality(Mismatches(rp)) + Cardinality(Mismatches(rf))
          /\ \A i \in DOMAIN rp :
               Cardinality(RecordsOf(ft, rp[i].file_path, "pass")) =
                   IF rp[i].success THEN 0 ELSE 1
          /\ \A i \in DOMAIN rf :
               Cardinality(RecordsOf(ft, rf[i].file_path, "fail")) =
                   IF rf[i].success THEN 0 ELSE 1
          /\ \A k \in DOMAIN ft :
               \/ /\ ft[k].expected = "pass"
                  /\ ft[k].actual = "fail"
                  /\ \E i \in Mismatches(rp) :
                       /\ rp[i].file_path = ft[k].file
                       /\ rp[i].expected_success
                       /\ ~rp[i].actual_success
               \/ /\ ft[k].expected = "fail"
                  /\ ft[k].actual = "pass"
                  /\ \E i \in Mismatches(rf) :
                       /\ rf[i].file_path = ft[k].file
                       /\ ~rf[i].expected_success
                       /\ rf[i].actual_success

\* a report with a mismatch of each kind, next to a matching result
C8_Witness ==
    /\ report # None
    /\ pc = "elapsed"
    /\ Mismatches(results_should_pass) # {}
    /\ Mismatches(results_should_fail) # {}
    /\ \E i \in DOMAIN results_should_pass : results_should_pass[i].success
    /\ Len(report[1].failed_tests) >= 2

\* C9: report files are append-only across runs: a report left by an
\* earlier run is never written again by a later run.
C9_NoReportOverwritten ==
    [][\A f \in fs : ~f.fresh => [name |-> f.name, fresh |-> FALSE] \in fs']_vars

\* C10: a task held by a worker that dies is not silently dropped: the loop
\* never waits for a result that no worker and no queue holds any more.
C10_NeverWaitsOnLostTask ==
    ~( /\ pc \in Drain
       /\ status = "running"
       /\ index < Len(tasks)
       /\ taskq = << >>
       /\ outq = << >>
       /\ \A w \in DOMAIN worker : worker[w] = 0 )

\* C11: mismatches are data: once both batches have completed the run goes
\* on to the elapsed-time print and ends with status 0, whatever the number
\* of mismatches; only the operator's interrupt ends it otherwise.
C11_CompletedBatchesExitZero ==
    BothReturned => ~(status = "exit1" /\ exc # "KeyboardInterrupt")

\* C12: a failure to write the report is surfaced without crashing the run:
\* no OSError of open or json.dump leaves main().
C12_WriteFailureDoesNotCrash ==
    ~(pc = "save_results" /\ status = "exit1" /\ exc = "OSError")

\* a set as main() holds it after its batch: every task delivered its result
SetDrained(res, st) ==
    IF HasKey(st, "total")
    THEN Len(res) = st.total /\ st.passed + st.failed = st.total
    ELSE res = << >>

\* lines printed by print_stats and save_results
StageLines ==
    {"test_results", "should_parse", "should_fail", "overall", "failed_tests",
     "report_saved", "sample_should_parse", "sample_should_fail"}

BeforeStages == pc \in {"process1", "drain1", "process2", "drain2"}

\* C13 (as amended): print_stats and save_results start only after the batch
\* of each set has fully drained, and the results and statistics of a set
\* reach main() only when that set's batch has completed; the counters
\* themselves are folded one result at a time while the batch is running.
C13_StagesSeeOnlyDrainedBatches ==
    /\ BothReturned =>
         /\ SetDrained(results_should_pass, stats_should_pass)
         /\ SetDrained(results_should_fail, stats_should_fail)
         /\ worker = << >> /\ taskq = << >> /\ outq = << >> /\ tasks = << >>
    /\ BeforeStages =>
         /\ \A k \in DOMAIN out : out[k].line \notin StageLines
         /\ report = None
         /\ results_should_fail = << >>
         /\ ~HasKey(stats_should_fail, "total")
    /\ pc \in {"process1", "drain1"} =>
         /\ results_should_pass = << >>
         /\ ~HasKey(stats_should_pass, "total")

\* print_stats has run on two batches of two tasks each
C13_Witness ==
    /\ pc = "save_results"
    /\ HasKey(stats_should_pass, "total") /\ stats_should_pass.total = 2
    /\ HasKey(stats_should_fail, "total") /\ stats_should_fail.total = 2
    /\ \E k \in DOMAIN out : out[k].line = "overall" /\ out[k].total = 4

\* C13 (as stated): in addition, no counter of a set is folded from its
\* results before the batch of that set has completed.
C13_NoFoldBeforeBatchCompletes ==
    /\ C13_StagesSeeOnlyDrainedBatches
    /\ (pc \in Drain /\ index < Len(tasks)) =>
          (stats.passed = 0 /\ stats.failed = 0)

\* C14: a run that is interrupted, or that an exception leaves, before both
\* batches have completed writes no report at all: a report (built, opened
\* or written by this run) exists only once save_results has been entered,
\* which is after both batches.
C14_NoPartialReport ==
    /\ (report # None \/ report_file # None \/ opened > 0 \/ WrittenThisRun # {})
          => pc \in {"save_results", "elapsed", "done"}
    /\ BeforeStages => \A k \in DOMAIN out : out[k].line # "report_saved"

\* interrupted during the second batch, a mismatch of the first set and a
\* result of the second already collected, and nothing was written
C14_Witness ==
    /\ pc = "drain2"
    /\ status = "exit1"
    /\ exc = "KeyboardInterrupt"
    /\ Mismatches(results_should_pass) # {}
    /\ results # << >>
    /\ WrittenThisRun = {}

\* C15: the worker pool is a scoped resource: it exists exactly while a
\* batch is being drained and is released on every way out of the batch,
\* the normal return, an exception re-raised in the loop and an interrupt,
\* so no worker, queued task or undelivered outcome outlives its batch.
C15_PoolReleasedOnEveryExit ==
    /\ (worker # << >> \/ taskq # << >> \/ outq # << >>)
          => (pc \in Drain /\ status = "running")
    /\ (pc \in Drain /\ status = "running") => Len(worker) >= 1

\* an exception of a worker left the first batch, whose pool had two
\* workers, and the pool is gone
C15_Witness ==
    /\ pc = "drain1"
    /\ status = "exit1"
    /\ exc = "FileNotFoundError"
    /\ cpu_count = 2
    /\ worker = << >>

\* workers that hold a task: each is blocked in subprocess.run on the one
\* oracle process it spawned for that task
Busy == { w \in DOMAIN worker : worker[w] # 0 }

Scanned ==
    Cardinality({ k \in DOMAIN out :
                    out[k].line \in {"testing_files", "no_files_found"} })

\* C17: the two labeled sets are processed strictly in sequence: the batch
\* being drained holds tasks of one set only, should-not-parse tasks exist
\* only after the should-parse batch has returned with every result
\* delivered, and between the two batches no pool exists, so there is never
\* more than one.
C17_SetsProcessedInSequence ==
    /\ pc \in Drain =>
         \A i \in DOMAIN tasks : tasks[i].expected_success = (pc = "drain1")
    /\ pc = "drain1" => Scanned = 1
    /\ pc \in {"process2", "drain2"} =>
         /\ SetDrained(results_should_pass, stats_should_pass)
         /\ \A k \in DOMAIN results_should_pass :
               results_should_pass[k].expected_success
    /\ pc = "process2" =>
         (Scanned = 1 /\ worker = << >> /\ taskq = << >> /\ outq = << >>)
    /\ pc = "drain2" => Scanned = 2

\* a should-not-parse task is running after both should-parse results
\* were handed to main()
C17_Witness ==
    /\ pc = "drain2"
    /\ status = "running"
    /\ Len(results_should_pass) = 2
    /\ Busy # {}

\* C18: whenever the oracle process of a task exits, the outcome test_file
\* sends back is a TaskResult with the file_path and expected_success of
\* that very task, actual_success true exactly when the exit status the
\* oracle gave for the file is 0 (false for 1 and for death by signal), and
\* success == (expected_success == actual_success).
C18_TaskResultReflectsExitStatus ==
    [][ (oracle.present /\ Len(outq') = Len(outq) + 1) =>
          \E w \in Busy :
            /\ worker'[w] = 0
            /\ LET task == tasks[worker[w]]
                   msg == outq'[Len(outq')]
               IN  /\ msg.exc = "none"
                   /\ msg.ret[1].file_path = task.file_path
                   /\ msg.ret[1].expected_success = task.expected_success
                   /\ \E v \in oracle'.seen :
                        /\ v.file_path = task.file_path
                        /\ msg.ret[1].actual_success = v.accepts
                   /\ msg.ret[1].success =
                        (msg.ret[1].expected_success = msg.ret[1].actual_success)
      ]_vars

\* the oracle rejected a should-not-parse file and the task counts as passed
C18_Witness ==
    /\ pc = "drain2"
    /\ outq # << >>
    /\ Head(outq).exc = "none"
    /\ ~Head(outq).ret[1].expected_success
    /\ ~Head(outq).ret[1].actual_success
    /\ Head(outq).ret[1].success

\* C19: progress and termination: when the oracle can be run and every
\* invocation exits, no worker is lost and nobody interrupts, every batch
\* drains and the run reaches the elapsed-time print; so such a run never
\* ends by an exception before that print.
C19_RunReachesElapsedPrint ==
    ~(/\ status = "exit1"
      /\ exc \notin {"none", "KeyboardInterrupt"}
      /\ oracle.present
      /\ crashes = 0
      /\ pc # "done")

\* the file fields of the records of one set, in the order of failed_tests
RECURSIVE FilesOf(_, _)
FilesOf(failed_tests, expected) ==
    IF failed_tests = << >> THEN << >>
    ELSE (IF Head(failed_tests).expected = expected
          THEN << Head(failed_tests).file >> ELSE << >>)
         \o FilesOf(Tail(failed_tests), expected)

\* the line print_stats printed for a set shows these counters
Printed(tag, summary) ==
    \E k \in DOMAIN out :
        /\ out[k].line = tag
        /\ out[k].passed = summary.passed
        /\ out[k].total = summary.total
        /\ summary.failed = summary.total - summary.passed

\* C20: the two views of a set's mismatches agree: in a report, the file
\* fields of the records of a set are, element for element and in the same
\* order, the failed_files of that set's stats; every should-parse record
\* precedes every should-not-parse record; and the total, passed and failed
\* of each set in the report are those print_stats printed in the same run.
C20_ReportAgreesWithStats ==
    report # None =>
        LET failed_tests == report[1].failed_tests
        IN  /\ FilesOf(failed_tests, "pass") = stats_should_pass.failed_files
            /\ FilesOf(failed_tests, "fail") = stats_should_fail.failed_files
            /\ \A j, k \in DOMAIN failed_tests :
                  (failed_tests[j].expected = "pass" /\ failed_tests[k].expected = "fail")
                      => j < k
            /\ report[1].stats.should_pass = stats_summary(stats_should_pass)
            /\ report[1].stats.should_fail = stats_summary(stats_should_fail)
            /\ Printed("should_parse", report[1].stats.should_pass)
            /\ Printed("should_fail", report[1].stats.should_fail)

\* a report whose failed_tests holds a should-parse record and, after it, a
\* should-not-parse record, for sets of two files each
C20_Witness ==
    /\ report # None
    /\ stats_should_pass.total = 2
    /\ stats_should_fail.total = 2
    /\ Len(stats_should_pass.failed_files) = 1
    /\ Len(stats_should_fail.failed_files) = 1
    /\ Len(report[1].failed_tests) = 2
    /\ report[1].failed_tests[1].expected = "pass"
    /\ report[1].failed_tests[2].expected = "fail"
====
